---- MODULE Spec2Model ----
(***************************************************************************)
(* A model of practice.py: the Sokoban tiles and entities, convert_maze,   *)
(* SokobanModel.attempt_move / has_won and the Sokoban.play_game loop.     *)
(*                                                                         *)
(* Positions are Python's (row, col) pairs, 0-based: <<x, y>>.  A Python   *)
(* list is a TLA+ sequence, so grid[x][y] of the source is                 *)
(* grid[x + 1][y + 1] here.                                                *)
(***************************************************************************)
EXTENDS Integers, Sequences, FiniteSets, TLC

(***************************************************************************)
(* Bounds of the model.                                                    *)
(***************************************************************************)
\* initial player strength is drawn from 0..MaxStrength
MaxStrength == 1
\* initial number of moves is drawn from 1..MaxMoves
MaxMoves == 2
\* attempt_move called on the bare model is explored while
\* moves_remaining > -MaxOverdraw
MaxOverdraw == 1

(***************************************************************************)
(* The single-letter constants of the support module, as the docstrings of *)
(* practice.py give them.                                                  *)
(***************************************************************************)
FLOOR == " "
WALL == "W"
GOAL == "G"
FILLED_GOAL == "X"
CRATE == "C"
PLAYER == "P"
STRENGTH_POTION == "S"
MOVE_POTION == "M"
FANCY_POTION == "F"

UP == "w"
DOWN == "s"
LEFT == "a"
RIGHT == "d"

\* dict: direction -> (row delta, col delta)
DIRECTION_DELTAS ==
    (UP :> <<-1, 0>>) @@ (DOWN :> <<1, 0>>) @@ (LEFT :> <<0, -1>>) @@ (RIGHT :> <<0, 1>>)

(***************************************************************************)
(* Tiles.  A tile object is a record: its class, Goal's _fill attribute    *)
(* (absent on the other classes, kept FALSE) and its _type tag.            *)
(***************************************************************************)
Floor == [class |-> "Floor", filled |-> FALSE, type |-> FLOOR]
Wall == [class |-> "Wall", filled |-> FALSE, type |-> WALL]
Goal == [class |-> "Goal", filled |-> FALSE, type |-> GOAL]

\* Tile.is_blocking, overridden by Wall only
is_blocking(tile) == tile.class = "Wall"

\* isinstance(tile, Goal)
is_goal(tile) == tile.class = "Goal"

\* Goal.is_filled
is_filled(tile) == tile.filled

\* Goal.fill: sets _fill and switches the display tag
fill(tile) == [tile EXCEPT !.filled = TRUE, !.type = FILLED_GOAL]

\* Tile.get_type / __str__
get_type(tile) == tile.type

(***************************************************************************)
(* Entities.  id is the identity of the object: the maze cell whose        *)
(* character created it.  strength is Crate._strength (0 on potions, which *)
(* have no such attribute).                                                *)
(***************************************************************************)
\* Python's None where an entity is looked up (dict.get without a match)
None == [class |-> "NoneType", strength |-> 0, id |-> <<>>]

\* Python's None as player_position: no player character in the maze
NoPosition == <<>>

Crate(s, id) == [class |-> "Crate", strength |-> s, id |-> id]
StrengthPotion(id) == [class |-> "StrengthPotion", strength |-> 0, id |-> id]
MovePotion(id) == [class |-> "MovePotion", strength |-> 0, id |-> id]
FancyPotion(id) == [class |-> "FancyPotion", strength |-> 0, id |-> id]

\* isinstance(entity, Crate)
is_crate(entity) == entity.class = "Crate"

\* isinstance(entity, Potion)
is_potion(entity) ==
    entity.class \in {"StrengthPotion", "MovePotion", "FancyPotion"}

\* a faulty variant of effect: FancyPotion forgets its moves
effect_fancy_without_moves(entity) ==
    CASE entity.class = "StrengthPotion" -> ("strength" :> 2)
      [] entity.class = "MovePotion" -> ("moves" :> 5)
      [] entity.class = "FancyPotion" -> ("strength" :> 2)

\* Potion.effect of the three subclasses: a dict with optional keys
effect(entity) ==
    CASE entity.class = "StrengthPotion" -> ("strength" :> 2)
      [] entity.class = "MovePotion" -> ("moves" :> 5)
      [] entity.class = "FancyPotion" -> ("strength" :> 2) @@ ("moves" :> 2)

\* dict.get(key, default)
dict_get(d, key, default) == IF key \in DOMAIN d THEN d[key] ELSE default

(***************************************************************************)
(* convert_maze                                                            *)
(***************************************************************************)
Digits == <<"0", "1", "2", "3", "4", "5", "6", "7", "8", "9">>

\* str.isdigit on a single character
isdigit(char) == \E k \in 1..Len(Digits) : Digits[k] = char

\* int(char) of a digit
int(char) == (CHOOSE k \in 1..Len(Digits) : Digits[k] = char) - 1

\* what one character appends to the row's tile list `temp`: only the four
\* tile characters append a tile; every other branch appends nothing
tile_of(char) ==
    CASE char = WALL -> <<Wall>>
      [] char = GOAL -> <<Goal>>
      [] char = FILLED_GOAL -> <<fill(Goal)>>
      [] char = FLOOR -> <<Floor>>
      [] OTHER -> <<>>

\* the inner loop over j: the tiles appended for row[j..]
RECURSIVE convert_row(_, _)
convert_row(row, j) ==
    IF j > Len(row) THEN <<>> ELSE tile_of(row[j]) \o convert_row(row, j + 1)

\* the entity a character stores at `position`, None when it stores none
entity_of(char, position) ==
    CASE char \in {WALL, GOAL, FILLED_GOAL, FLOOR} -> None
      [] isdigit(char) -> Crate(int(char), position)
      [] char = STRENGTH_POTION -> StrengthPotion(position)
      [] char = MOVE_POTION -> MovePotion(position)
      [] char = FANCY_POTION -> FancyPotion(position)
      [] OTHER -> None

\* all (i, j) of the character grid
Cells(game) == {<<i, j>> \in (0..(Len(game) - 1)) \X (0..9) : j < Len(game[i + 1])}

\* row-major order of positions
Before(p, q) == p[1] < q[1] \/ (p[1] = q[1] /\ p[2] <= q[2])

convert_maze(game) ==
    LET chr(p) == game[p[1] + 1][p[2] + 1]
        occupied == {p \in Cells(game) : entity_of(chr(p), p) # None}
        players == {p \in Cells(game) : chr(p) = PLAYER}
    IN [grid |-> [i \in 1..Len(game) |-> convert_row(game[i], 1)],
        entities |-> [p \in occupied |-> entity_of(chr(p), p)],
        \* the last assignment in row-major order stays
        player_position |->
            IF players = {} THEN NoPosition
            ELSE CHOOSE p \in players : \A q \in players : Before(q, p)]

(***************************************************************************)
(* The mazes the model is constructed from: three rows of four characters, *)
(* exactly one of them holding the player, and the 3x3 scenario of the     *)
(* specification.                                                          *)
(***************************************************************************)
RowsNoPlayer ==
    { <<" ", " ", " ", " ">>,
      <<"W", "W", "W", "W">>,
      <<"G", " ", " ", "W">>,
      <<"1", " ", " ", " ">>,
      <<"1", "W", " ", " ">>,
      <<"S", "M", " ", " ">>,
      <<"F", " ", " ", "X">>,
      <<"X", "2", " ", " ">> }

RowsPlayer ==
    { <<"P", " ", " ", " ">>,
      <<"G", "1", "P", " ">>,
      <<"X", "1", "P", "G">>,
      <<" ", "P", " ", "S">> }

ScenarioMaze ==
    << <<"W", "W", "W">>,
       <<"P", "1", "G">>,
       <<"W", "W", "W">> >>

Mazes ==
    { m \in [1..3 -> RowsNoPlayer \cup RowsPlayer] :
        Cardinality({i \in 1..3 : m[i] \in RowsPlayer}) = 1 }
    \cup {ScenarioMaze}

(***************************************************************************)
(* State                                                                   *)
(***************************************************************************)
VARIABLES
    game,             \* the character grid the model was built from (never changes)
    grid,             \* SokobanModel._grid
    entities,         \* SokobanModel._entities
    player_position,  \* SokobanModel._player_position
    strength,         \* Player._start_strength
    moves_remaining,  \* Player._moves_remaining
    direction,        \* the argument of the last attempt_move call
    ret,              \* how it ended: "True", "False" or the exception raised
    moves_log,        \* the values written to _moves_remaining by that call, in order
    session           \* play_game: "none", "playing", "won", "lost", "quit", "crashed"

vars == <<game, grid, entities, player_position, strength, moves_remaining,
          direction, ret, moves_log, session>>

\* SokobanModel._rows, _cols: set once in __init__, the grid's shape never changes
rows == Len(grid)
cols == Len(grid[1])

(***************************************************************************)
(* Player                                                                  *)
(***************************************************************************)
\* Player.is_moveable
is_moveable == TRUE

\* Player.add_strength
add_strength(s, amount) == s + amount

\* Player.add_moves_remaining
add_moves_remaining(m, amount) == m + amount

\* Player.apply_effect: the player's (strength, moves) after the effect
apply_effect(s, m, potion_effect) ==
    [strength |-> add_strength(s, dict_get(potion_effect, "strength", 0)),
     moves_remaining |-> add_moves_remaining(m, dict_get(potion_effect, "moves", 0))]

(***************************************************************************)
(* SokobanModel.attempt_move                                               *)
(***************************************************************************)
\* dict.pop(key) and dict[key] = value
dict_pop(d, key) == [k \in (DOMAIN d) \ {key} |-> d[k]]
dict_set(d, key, value) == [k \in (DOMAIN d) \cup {key} |-> IF k = key THEN value ELSE d[k]]

\* whether grid[x][y] is an element of the nested list (else IndexError), for x, y >= 0
has_tile(x, y) == x + 1 <= Len(grid) /\ y + 1 <= Len(grid[x + 1])

\* grid[x][y]
tile_at(x, y) == grid[x + 1][y + 1]

\* a faulty variant of return_false: the move is charged before it is rejected
return_false_charged ==
    [ret |-> "False", grid |-> grid, entities |-> entities,
     player_position |-> player_position, strength |-> strength,
     moves_remaining |-> moves_remaining - 1, moves_log |-> <<moves_remaining - 1>>]

\* `return False`: the call ends with nothing written
return_false ==
    [ret |-> "False", grid |-> grid, entities |-> entities,
     player_position |-> player_position, strength |-> strength,
     moves_remaining |-> moves_remaining, moves_log |-> <<>>]

\* self._grid[x][y] past the end of the row: the call ends by raising, nothing written
raise_index_error == [return_false EXCEPT !.ret = "IndexError"]

\* a faulty variant of push_onto_goal: the crate is left in the entity map
push_onto_goal_keeps_crate(x2, y2, x3, y3) ==
    [ret |-> "True",
     grid |-> [grid EXCEPT ![x3 + 1][y3 + 1] = fill(@)],
     entities |-> entities,
     player_position |-> <<x2, y2>>,
     strength |-> strength,
     moves_remaining |-> moves_remaining - 1,
     moves_log |-> <<moves_remaining - 1>>]

\* lines 313-321: the crate at (x2, y2) is pushed onto the unfilled Goal at (x3, y3)
push_onto_goal(x2, y2, x3, y3) ==
    [ret |-> "True",
     grid |-> [grid EXCEPT ![x3 + 1][y3 + 1] = fill(@)],
     entities |-> dict_pop(entities, <<x2, y2>>),
     player_position |-> <<x2, y2>>,
     strength |-> strength,
     moves_remaining |-> add_moves_remaining(moves_remaining, -1),
     moves_log |-> <<add_moves_remaining(moves_remaining, -1)>>]

\* a faulty variant of relocate_crate: the old key is not popped, the crate is
\* in the map twice
relocate_crate_keeps_old_key(x2, y2, x3, y3) ==
    [ret |-> "True",
     grid |-> grid,
     entities |-> dict_set(entities, <<x3, y3>>, entities[<<x2, y2>>]),
     player_position |-> <<x2, y2>>,
     strength |-> strength,
     moves_remaining |-> moves_remaining - 1,
     moves_log |-> <<moves_remaining - 1>>]

\* lines 322-327: the crate at (x2, y2) is moved to (x3, y3)
relocate_crate(x2, y2, x3, y3) ==
    [ret |-> "True",
     grid |-> grid,
     entities |-> dict_pop(dict_set(entities, <<x3, y3>>, entities[<<x2, y2>>]), <<x2, y2>>),
     player_position |-> <<x2, y2>>,
     strength |-> strength,
     moves_remaining |-> add_moves_remaining(moves_remaining, -1),
     moves_log |-> <<add_moves_remaining(moves_remaining, -1)>>]

\* a faulty variant of collect_potion: the potion's key is not popped
collect_potion_keeps_potion(x2, y2) ==
    LET after == apply_effect(strength, moves_remaining, effect(entities[<<x2, y2>>]))
    IN [ret |-> "True",
        grid |-> grid,
        entities |-> entities,
        player_position |-> <<x2, y2>>,
        strength |-> after.strength,
        moves_remaining |-> after.moves_remaining - 1,
        moves_log |-> <<after.moves_remaining, after.moves_remaining - 1>>]

\* a variant of collect_potion with the two writes in the other order: the
\* move's cost first, the potion's effect after it
collect_potion_cost_first(x2, y2) ==
    LET after == apply_effect(strength, moves_remaining - 1, effect(entities[<<x2, y2>>]))
    IN [ret |-> "True",
        grid |-> grid,
        entities |-> dict_pop(entities, <<x2, y2>>),
        player_position |-> <<x2, y2>>,
        strength |-> after.strength,
        moves_remaining |-> after.moves_remaining,
        moves_log |-> <<moves_remaining - 1, after.moves_remaining>>]

\* lines 329-336: the potion at (x2, y2) is collected: apply_effect first,
\* the move's cost after it
collect_potion(x2, y2) ==
    LET after == apply_effect(strength, moves_remaining, effect(entities[<<x2, y2>>]))
    IN [ret |-> "True",
        grid |-> grid,
        entities |-> dict_pop(entities, <<x2, y2>>),
        player_position |-> <<x2, y2>>,
        strength |-> after.strength,
        moves_remaining |-> add_moves_remaining(after.moves_remaining, -1),
        moves_log |-> <<after.moves_remaining,
                        add_moves_remaining(after.moves_remaining, -1)>>]

\* a faulty variant of plain_move: a Goal the player steps onto is filled
plain_move_fills_goal(x2, y2) ==
    [ret |-> "True",
     grid |-> [grid EXCEPT ![x2 + 1][y2 + 1] = IF is_goal(@) THEN fill(@) ELSE @],
     entities |-> entities,
     player_position |-> <<x2, y2>>,
     strength |-> strength,
     moves_remaining |-> moves_remaining - 1,
     moves_log |-> <<moves_remaining - 1>>]

\* lines 337-342: the player steps onto (x2, y2)
plain_move(x2, y2) ==
    [ret |-> "True",
     grid |-> grid,
     entities |-> entities,
     player_position |-> <<x2, y2>>,
     strength |-> strength,
     moves_remaining |-> add_moves_remaining(moves_remaining, -1),
     moves_log |-> <<add_moves_remaining(moves_remaining, -1)>>]

\* lines 294-327: the target (x2, y2) holds a Crate, pushed by (dx, dy)
push_crate(x2, y2, dx, dy) ==
    LET entity == entities[<<x2, y2>>]
        x3 == x2 + dx
        y3 == y2 + dy
    IN IF strength < entity.strength THEN return_false
       ELSE IF x3 < 0 \/ x3 >= rows THEN return_false
       ELSE IF y3 < 0 \/ y3 >= cols THEN return_false
       ELSE IF ~has_tile(x3, y3) THEN raise_index_error
       ELSE IF is_blocking(tile_at(x3, y3)) THEN return_false
       ELSE IF <<x3, y3>> \in DOMAIN entities THEN return_false
       ELSE IF is_goal(tile_at(x3, y3)) /\ ~is_filled(tile_at(x3, y3))
            THEN push_onto_goal(x2, y2, x3, y3)
       ELSE relocate_crate(x2, y2, x3, y3)

\* the whole call: the model's state after it and how it ended
attempt_move(d) ==
    IF d \notin DOMAIN DIRECTION_DELTAS THEN return_false
    ELSE LET dx == DIRECTION_DELTAS[d][1]
             dy == DIRECTION_DELTAS[d][2]
             x2 == player_position[1] + dx
             y2 == player_position[2] + dy
             entity == dict_get(entities, <<x2, y2>>, None)
         IN IF x2 < 0 \/ x2 >= rows THEN return_false
            ELSE IF y2 < 0 \/ y2 >= cols THEN return_false
            ELSE IF ~has_tile(x2, y2) THEN raise_index_error
            ELSE IF is_blocking(tile_at(x2, y2)) THEN return_false
            ELSE IF is_crate(entity) THEN push_crate(x2, y2, dx, dy)
            ELSE IF is_potion(entity) THEN collect_potion(x2, y2)
            ELSE plain_move(x2, y2)

\* SokobanModel.has_won: the scan of the grid, row by row, tile by tile, that
\* returns False at the first unfilled Goal
RECURSIVE has_won_from(_, _, _)
has_won_from(g, i, j) ==
    IF i > Len(g) THEN TRUE
    ELSE IF j > Len(g[i]) THEN has_won_from(g, i + 1, 1)
    ELSE IF is_goal(g[i][j]) /\ ~is_filled(g[i][j]) THEN FALSE
    ELSE has_won_from(g, i, j + 1)

\* a faulty variant of has_won: `return True` inside the outer loop, so only
\* the first row is scanned
has_won_first_row(g) == has_won_from(<<g[1]>>, 1, 1)

has_won(g) == has_won_from(g, 1, 1)

(***************************************************************************)
(* The bare model: constructed from a maze file, then attempt_move called  *)
(* with any argument, in any order.                                        *)
(***************************************************************************)
\* the values a caller passes as direction: the four keys and two others
Commands == {UP, DOWN, LEFT, RIGHT, "W", "x"}

\* direction and ret before the first call
NoCall == "None"

\* SokobanModel.__init__ on a maze file holding `maze` and the stats (s, m)
Construct(maze, s, m) ==
    LET c == convert_maze(maze)
    IN /\ game = maze
       /\ grid = c.grid
       /\ entities = c.entities
       /\ player_position = c.player_position
       /\ strength = s
       /\ moves_remaining = m
       /\ direction = NoCall
       /\ ret = NoCall
       /\ moves_log = <<>>

Init ==
    /\ \E maze \in Mazes, s \in 0..MaxStrength, m \in 1..MaxMoves : Construct(maze, s, m)
    /\ session = "none"

\* the state change of one attempt_move(d) call
Call(d) ==
    LET r == attempt_move(d)
    IN /\ grid' = r.grid
       /\ entities' = r.entities
       /\ player_position' = r.player_position
       /\ strength' = r.strength
       /\ moves_remaining' = r.moves_remaining
       /\ moves_log' = r.moves_log
       /\ ret' = r.ret
       /\ direction' = d
       /\ game' = game

AttemptMove ==
    /\ session = "none"
    /\ moves_remaining > -MaxOverdraw
    /\ \E d \in Commands : Call(d)
    /\ UNCHANGED session

Next == AttemptMove

Spec == Init /\ [][Next]_vars

(***************************************************************************)
(* Sokoban.play_game: the controller's loop around the model.              *)
(***************************************************************************)
\* what the user types at "Enter move: "
Inputs == Commands \cup {"q", "Q"}

\* str.lower on the inputs
lower(command) ==
    CASE command = "Q" -> "q"
      [] command = "W" -> "w"
      [] OTHER -> command

\* the loop's condition `while not has_won()`, evaluated on entry
InitPlay ==
    /\ \E maze \in Mazes, s \in 0..MaxStrength, m \in 1..MaxMoves : Construct(maze, s, m)
    /\ session = IF has_won(grid) THEN "won" ELSE "playing"

\* a faulty variant of after_move: the test of the moves at lines 391-393 is missing
after_move_without_loss(r) ==
    IF r.ret \notin {"True", "False"} THEN "crashed"
    ELSE IF r.ret = "False" THEN "playing"
    ELSE IF has_won(r.grid) THEN "won"
    ELSE "playing"

\* where the loop stands after attempt_move has ended as r: the exception
\* leaves play_game, a rejected move continues, a move that brings the moves
\* to 0 returns with "You lost!", and otherwise the loop condition decides
after_move(r) ==
    IF r.ret \notin {"True", "False"} THEN "crashed"
    ELSE IF r.ret = "False" THEN "playing"
    ELSE IF r.moves_remaining = 0 THEN "lost"
    ELSE IF has_won(r.grid) THEN "won"
    ELSE "playing"

\* one iteration whose input is the quit command
Quit ==
    /\ session = "playing"
    /\ \E command \in Inputs : lower(command) = "q"
    /\ session' = "quit"
    /\ UNCHANGED <<game, grid, entities, player_position, strength, moves_remaining,
                   direction, ret, moves_log>>

\* one iteration whose input is passed to attempt_move
Turn ==
    /\ session = "playing"
    /\ \E command \in Inputs :
          /\ lower(command) # "q"
          /\ Call(command)
          /\ session' = after_move(attempt_move(command))

NextPlay == Quit \/ Turn

SpecPlay == InitPlay /\ [][NextPlay]_vars

(***************************************************************************)
(* Vocabulary of the properties, read off the state as the code reads it:  *)
(* a cell's tile is grid[x][y], it is in bounds by _rows and _cols.        *)
(***************************************************************************)
Keys == DOMAIN DIRECTION_DELTAS

Target(d) ==
    <<player_position[1] + DIRECTION_DELTAS[d][1], player_position[2] + DIRECTION_DELTAS[d][2]>>

Beyond(d) ==
    <<Target(d)[1] + DIRECTION_DELTAS[d][1], Target(d)[2] + DIRECTION_DELTAS[d][2]>>

InBounds(p) == p[1] >= 0 /\ p[1] < rows /\ p[2] >= 0 /\ p[2] < cols

\* the cell is in bounds and its tile is one that does not block
NonBlocking(p) == InBounds(p) /\ has_tile(p[1], p[2]) /\ tile_at(p[1], p[2]).class # "Wall"

UnfilledGoalAt(p) ==
    /\ InBounds(p) /\ has_tile(p[1], p[2])
    /\ tile_at(p[1], p[2]).class = "Goal" /\ ~tile_at(p[1], p[2]).filled

HoldsCrate(p) == p \in DOMAIN entities /\ entities[p].class = "Crate"

HoldsPotion(p) ==
    p \in DOMAIN entities /\ entities[p].class \in {"StrengthPotion", "MovePotion", "FancyPotion"}

\* the indices <<i, j>> of the tiles of g that are Goals / unfilled Goals
GoalTiles(g) == {ij \in (1..Len(g)) \X (1..9) : ij[2] <= Len(g[ij[1]]) /\ g[ij[1]][ij[2]].class = "Goal"}
UnfilledGoals(g) == {ij \in GoalTiles(g) : ~g[ij[1]][ij[2]].filled}

\* the positions of the Crates of an entity map
Crates(e) == {p \in DOMAIN e : e[p].class = "Crate"}

\* the model as constructed, before any call
Initial == convert_maze(game)

\* every Goal's filled flag
GoalFlags == [ij \in GoalTiles(grid) |-> grid[ij[1]][ij[2]].filled]

(***************************************************************************)
(* C1: whenever attempt_move returns false, the entity map, the player     *)
(* position, the player's strength and moves remaining and every Goal's    *)
(* filled flag are what they were before the call.                         *)
(***************************************************************************)
C1_FalseChangesNothing ==
    [][ret' = "False" =>
          /\ entities' = entities
          /\ player_position' = player_position
          /\ strength' = strength
          /\ moves_remaining' = moves_remaining
          /\ GoalFlags' = GoalFlags]_vars

\* a call was rejected because the crate in the target cell is too heavy
C1_Witness ==
    /\ ret = "False"
    /\ direction \in Keys
    /\ NonBlocking(Target(direction))
    /\ HoldsCrate(Target(direction))
    /\ strength < entities[Target(direction)].strength

(***************************************************************************)
(* C2: attempt_move never raises: every call ends by returning true or     *)
(* false.                                                                  *)
(***************************************************************************)
C2_NeverRaises == ret \in {NoCall, "True", "False"}

(***************************************************************************)
(* C3: when the target cell holds a Crate the player is strong enough for  *)
(* and the cell beyond is in bounds, holds no entity and is an unfilled    *)
(* Goal, attempt_move returns true, the crate leaves the entity map, that  *)
(* Goal becomes filled and shows the filled tag, the player stands on the  *)
(* target cell and moves remaining drops by 1; in the 3x3 scenario (Goal   *)
(* at (1,2), Crate 1 at (1,1), player at (1,0), strength 1) RIGHT gives    *)
(* true, player (1,1), one move less and has_won.                          *)
(***************************************************************************)
C3_PushOntoGoalStep(d) ==
    (/\ direction' = d
     /\ HoldsCrate(Target(d))
     /\ strength >= entities[Target(d)].strength
     /\ Beyond(d) \notin DOMAIN entities
     /\ UnfilledGoalAt(Beyond(d)))
    => /\ ret' = "True"
       /\ Target(d) \notin DOMAIN entities'
       /\ \A p \in DOMAIN entities' : entities'[p].id # entities[Target(d)].id
       /\ tile_at(Beyond(d)[1], Beyond(d)[2]).type = GOAL
       /\ grid'[Beyond(d)[1] + 1][Beyond(d)[2] + 1].filled
       /\ grid'[Beyond(d)[1] + 1][Beyond(d)[2] + 1].type = FILLED_GOAL
       /\ FILLED_GOAL # GOAL
       /\ player_position' = Target(d)
       /\ moves_remaining' = moves_remaining - 1

C3_ScenarioStep ==
    (game = ScenarioMaze /\ ret = NoCall /\ strength = 1 /\ direction' = RIGHT)
    => /\ ret' = "True"
       /\ player_position' = <<1, 1>>
       /\ moves_remaining' = moves_remaining - 1
       /\ has_won(grid')

C3_PushOntoUnfilledGoal ==
    [][C3_ScenarioStep /\ \A d \in Keys : C3_PushOntoGoalStep(d)]_vars

(***************************************************************************)
(* C4: with a Crate of strength S in the target cell, attempt_move returns *)
(* false whenever the player's strength is below S; when it is at least S  *)
(* and the cell beyond is in bounds, non-blocking, free of entities and    *)
(* not an unfilled Goal, it returns true, the same crate is at the cell    *)
(* beyond and no longer at the target, the player stands on the target     *)
(* cell and moves remaining drops by 1.                                    *)
(***************************************************************************)
C4_TooHeavyStep(d) ==
    (direction' = d /\ HoldsCrate(Target(d)) /\ strength < entities[Target(d)].strength)
    => ret' = "False"

C4_RelocateStep(d) ==
    (/\ direction' = d
     /\ HoldsCrate(Target(d))
     /\ strength >= entities[Target(d)].strength
     /\ NonBlocking(Beyond(d))
     /\ Beyond(d) \notin DOMAIN entities
     /\ ~UnfilledGoalAt(Beyond(d)))
    => /\ ret' = "True"
       /\ Beyond(d) \in DOMAIN entities'
       /\ entities'[Beyond(d)] = entities[Target(d)]
       /\ Target(d) \notin DOMAIN entities'
       /\ player_position' = Target(d)
       /\ moves_remaining' = moves_remaining - 1

C4_CratePush ==
    [][\A d \in Keys : C4_TooHeavyStep(d) /\ C4_RelocateStep(d)]_vars

(***************************************************************************)
(* C5: when the target cell is in bounds, non-blocking and holds a Potion, *)
(* attempt_move returns true, the potion's key leaves the entity map, the  *)
(* player stands on the target cell, and strength and moves change by the  *)
(* potion's effect and the move's cost: +2 / -1 for StrengthPotion,        *)
(* +0 / +5-1 for MovePotion, +2 / +2-1 for FancyPotion.                    *)
(***************************************************************************)
C5_StrengthDelta(class) == IF class \in {"StrengthPotion", "FancyPotion"} THEN 2 ELSE 0

C5_MovesDelta(class) ==
    IF class = "MovePotion" THEN 5 ELSE IF class = "FancyPotion" THEN 2 ELSE 0

C5_CollectStep(d) ==
    (direction' = d /\ NonBlocking(Target(d)) /\ HoldsPotion(Target(d)))
    => /\ ret' = "True"
       /\ Target(d) \notin DOMAIN entities'
       /\ player_position' = Target(d)
       /\ strength' = strength + C5_StrengthDelta(entities[Target(d)].class)
       /\ moves_remaining' = moves_remaining + C5_MovesDelta(entities[Target(d)].class) - 1

C5_PotionCollected == [][\A d \in Keys : C5_CollectStep(d)]_vars

\* the player stands where the maze had its FancyPotion, which is gone
C5_Witness ==
    /\ ret = "True"
    /\ player_position \in DOMAIN Initial.entities
    /\ Initial.entities[player_position].class = "FancyPotion"
    /\ Len(moves_log) = 2
    /\ \A p \in DOMAIN entities : entities[p].class # "FancyPotion"

(***************************************************************************)
(* C6, as stated: in a potion-collecting call moves remaining is first     *)
(* decremented by 1 and the potion's moves delta is added after it (the    *)
(* values written are old-1, then old-1+delta).                            *)
(***************************************************************************)
C6_CostBeforePotion ==
    [][\A d \in Keys :
          (direction' = d /\ NonBlocking(Target(d)) /\ HoldsPotion(Target(d)))
          => moves_log' = <<moves_remaining - 1,
                            moves_remaining - 1 + C5_MovesDelta(entities[Target(d)].class)>>]_vars

(***************************************************************************)
(* C6, amended: in a potion-collecting call the potion's moves delta is    *)
(* added first and the move's cost is taken after it (the values written   *)
(* are old+delta, then old+delta-1); every successful call, and only a     *)
(* successful call, ends with that decrement of exactly 1.                 *)
(***************************************************************************)
C6_LastWriteIsCost ==
    IF ret' = "True"
    THEN /\ moves_log' # <<>>
         /\ moves_remaining' = moves_log'[Len(moves_log')]
         /\ moves_log'[Len(moves_log')] =
               (IF Len(moves_log') = 1 THEN moves_remaining
                ELSE moves_log'[Len(moves_log') - 1]) - 1
    ELSE moves_log' = <<>> /\ moves_remaining' = moves_remaining

C6_PotionBeforeCost ==
    [][/\ C6_LastWriteIsCost
       /\ \A d \in Keys :
            (direction' = d /\ NonBlocking(Target(d)) /\ HoldsPotion(Target(d)))
            => moves_log' = <<moves_remaining + C5_MovesDelta(entities[Target(d)].class),
                              moves_remaining + C5_MovesDelta(entities[Target(d)].class) - 1>>]_vars

\* the MovePotion of the maze has just been collected
C6_Witness ==
    /\ ret = "True"
    /\ Len(moves_log) = 2
    /\ moves_log[1] = moves_log[2] + 1
    /\ player_position \in DOMAIN Initial.entities
    /\ Initial.entities[player_position].class = "MovePotion"

(***************************************************************************)
(* C7: when the direction is recognised and the target cell is in bounds,  *)
(* non-blocking and holds no entity, attempt_move returns true, the player *)
(* stands on the target cell, moves remaining drops by 1, and the entity   *)
(* map, the strength and every Goal's filled flag stay as they were.       *)
(***************************************************************************)
C7_PlainStep(d) ==
    (direction' = d /\ NonBlocking(Target(d)) /\ Target(d) \notin DOMAIN entities)
    => /\ ret' = "True"
       /\ player_position' = Target(d)
       /\ moves_remaining' = moves_remaining - 1
       /\ entities' = entities
       /\ strength' = strength
       /\ GoalFlags' = GoalFlags

C7_PlainMove == [][\A d \in Keys : C7_PlainStep(d)]_vars

\* the player has walked onto an unfilled Goal, nothing having been pushed or collected
C7_Witness ==
    /\ ret = "True"
    /\ Len(moves_log) = 1
    /\ entities = Initial.entities
    /\ UnfilledGoalAt(player_position)

(***************************************************************************)
(* C8: in every reachable state has_won() is true iff the grid holds no    *)
(* unfilled Goal tile (so it is true of a grid without Goal tiles).        *)
(***************************************************************************)
C8_WonIffNoUnfilledGoal == has_won(grid) <=> (UnfilledGoals(grid) = {})

\* the last unfilled Goal, in a row below the first, was filled during play
C8_Witness ==
    /\ has_won(grid)
    /\ ~has_won(Initial.grid)
    /\ \E ij \in UnfilledGoals(Initial.grid) : ij[1] > 1

C10_LostIffOutOfMovesAndNotWon ==
    (session = "lost") <=> (ret = "True" /\ moves_remaining = 0 /\ ~has_won(grid))

(***************************************************************************)
(* C11: convert_maze returns one tile per input character, tile (r, c) for *)
(* character (r, c): a Floor under every crate digit, potion character and *)
(* the player character, a Floor and no entity for an unrecognised         *)
(* character; the player is only the start position, never an entry of the *)
(* entity map.                                                             *)
(***************************************************************************)
C11_TileFor(char) ==
    IF char = WALL THEN Wall
    ELSE IF char = GOAL THEN Goal
    ELSE IF char = FILLED_GOAL THEN fill(Goal)
    ELSE Floor

C11_OneTilePerCharacter ==
    /\ Len(Initial.grid) = Len(game)
    /\ \A i \in 1..Len(game) :
          /\ Len(Initial.grid[i]) = Len(game[i])
          /\ \A j \in 1..Len(game[i]) : Initial.grid[i][j] = C11_TileFor(game[i][j])
    /\ \A p \in Cells(game) :
          p \in DOMAIN Initial.entities
          <=> (isdigit(game[p[1] + 1][p[2] + 1])
               \/ game[p[1] + 1][p[2] + 1] \in {STRENGTH_POTION, MOVE_POTION, FANCY_POTION})
    /\ Initial.player_position \notin DOMAIN Initial.entities
    /\ game[Initial.player_position[1] + 1][Initial.player_position[2] + 1] = PLAYER

(***************************************************************************)
(* C12: whenever the player's moves remaining is <= 0, is_moveable() is    *)
(* false and no attempt_move call moves the player: it neither returns     *)
(* true nor changes the player position.                                   *)
(***************************************************************************)
C12_NoMoveWithoutMoves ==
    [][moves_remaining <= 0 =>
          /\ ~is_moveable
          /\ ret' # "True"
          /\ player_position' = player_position]_vars

(***************************************************************************)
(* C13: a filled Goal stays filled, and a Goal turns from unfilled to      *)
(* filled only in a call that returns true and removes one Crate that was  *)
(* pushed onto that Goal's cell, so the number of crates in the entity map *)
(* drops by exactly 1.                                                     *)
(***************************************************************************)
C13_GoalStep(ij) ==
    /\ grid[ij[1]][ij[2]].filled => grid'[ij[1]][ij[2]].filled
    /\ (~grid[ij[1]][ij[2]].filled /\ grid'[ij[1]][ij[2]].filled)
       => /\ ret' = "True"
          /\ direction' \in Keys
          /\ Beyond(direction') = <<ij[1] - 1, ij[2] - 1>>
          /\ HoldsCrate(Target(direction'))
          /\ \A p \in DOMAIN entities' : entities'[p].id # entities[Target(direction')].id
          /\ Cardinality(Crates(entities')) = Cardinality(Crates(entities)) - 1
          /\ Cardinality(DOMAIN entities') = Cardinality(DOMAIN entities) - 1

C13_FilledIsMonotone ==
    [][/\ GoalTiles(grid') = GoalTiles(grid)
       /\ \A ij \in GoalTiles(grid) : C13_GoalStep(ij)]_vars

\* the last call has filled a Goal: one crate fewer than before, the player in its cell
C13_Witness ==
    /\ ret = "True"
    /\ direction \in Keys
    /\ player_position \notin DOMAIN entities
    /\ \E ij \in GoalTiles(grid) :
          /\ grid[ij[1]][ij[2]].filled
          /\ ~Initial.grid[ij[1]][ij[2]].filled
          /\ <<ij[1] - 1, ij[2] - 1>> =
                <<player_position[1] + DIRECTION_DELTAS[direction][1],
                  player_position[2] + DIRECTION_DELTAS[direction][2]>>
          /\ Cardinality(UnfilledGoals(Initial.grid)) - Cardinality(UnfilledGoals(grid)) =
                Cardinality(Crates(Initial.entities)) - Cardinality(Crates(entities))

(***************************************************************************)
(* C14: when the cell beyond the crate is an in-bounds, unoccupied,        *)
(* already-filled Goal and the player's strength suffices, attempt_move    *)
(* returns true, the crate is in the entity map at the Goal's cell, no     *)
(* Goal's filled flag changes, the player stands on the crate's old cell   *)
(* and moves remaining drops by 1.                                         *)
(***************************************************************************)
C14_FilledGoalAt(p) ==
    /\ InBounds(p) /\ has_tile(p[1], p[2])
    /\ tile_at(p[1], p[2]).class = "Goal" /\ tile_at(p[1], p[2]).filled

C14_PushStep(d) ==
    (/\ direction' = d
     /\ HoldsCrate(Target(d))
     /\ strength >= entities[Target(d)].strength
     /\ C14_FilledGoalAt(Beyond(d))
     /\ Beyond(d) \notin DOMAIN entities)
    => /\ ret' = "True"
       /\ Beyond(d) \in DOMAIN entities'
       /\ entities'[Beyond(d)] = entities[Target(d)]
       /\ Target(d) \notin DOMAIN entities'
       /\ GoalFlags' = GoalFlags
       /\ player_position' = Target(d)
       /\ moves_remaining' = moves_remaining - 1

C14_PushOntoFilledGoal == [][\A d \in Keys : C14_PushStep(d)]_vars

(***************************************************************************)
(* C15: the entities of the entity map are entities of the initial map,    *)
(* each at most once, crates with their original strength; the number of   *)
(* entries never increases; an entry disappears only when a potion is      *)
(* collected or a crate is pushed onto an unfilled Goal; a failed or plain *)
(* move leaves the map unchanged.                                          *)
(***************************************************************************)
\* the entity is the one convert_maze made of the character at the cell `id`
C15_MadeFromMaze(entity) ==
    /\ entity.id[1] + 1 \in 1..Len(game)
    /\ entity.id[2] + 1 \in 1..Len(game[entity.id[1] + 1])
    /\ entity = entity_of(game[entity.id[1] + 1][entity.id[2] + 1], entity.id)

C15_FromInitialMap ==
    /\ \A p \in DOMAIN entities : C15_MadeFromMaze(entities[p])
    /\ \A p, q \in DOMAIN entities : entities[p].id = entities[q].id => p = q

C15_MapStep ==
    /\ Cardinality(DOMAIN entities') <= Cardinality(DOMAIN entities)
    /\ {entities'[p].id : p \in DOMAIN entities'} \subseteq {entities[p].id : p \in DOMAIN entities}
    /\ Cardinality(DOMAIN entities') < Cardinality(DOMAIN entities)
       => /\ Cardinality(DOMAIN entities') = Cardinality(DOMAIN entities) - 1
          /\ ret' = "True"
          /\ direction' \in Keys
          /\ \/ HoldsPotion(Target(direction'))
             \/ HoldsCrate(Target(direction')) /\ UnfilledGoalAt(Beyond(direction'))
    /\ ret' # "True" => entities' = entities
    /\ (direction' \in Keys /\ Target(direction') \notin DOMAIN entities) => entities' = entities

C15_NoEntityCreated ==
    [][C15_FromInitialMap /\ C15_MapStep /\ C15_FromInitialMap']_vars

\* a crate stands on another cell than the maze's, and an entry of the map is gone
C15_Witness ==
    /\ \E p \in DOMAIN entities : entities[p].class = "Crate" /\ entities[p].id # p
    /\ Cardinality(DOMAIN entities) < Cardinality(DOMAIN Initial.entities)

(***************************************************************************)
(* C16: from a well-formed state (a rectangular grid with a tile at every  *)
(* cell, the player in bounds on a non-blocking tile, no entity at the     *)
(* player's cell, on a blocking tile or out of bounds) every attempt_move  *)
(* call leads to a well-formed state.                                      *)
(***************************************************************************)
C16_WellFormed ==
    /\ \A i \in 1..Len(grid) : Len(grid[i]) = cols
    /\ NonBlocking(player_position)
    /\ player_position \notin DOMAIN entities
    /\ \A p \in DOMAIN entities : NonBlocking(p)

C16_PositionInvariant == [][C16_WellFormed => C16_WellFormed']_vars

\* well-formed after a crate has been pushed to another cell
C16_Witness ==
    /\ C16_WellFormed
    /\ ret = "True"
    /\ \E p \in DOMAIN entities : entities[p].class = "Crate" /\ entities[p].id # p
    /\ Len(moves_log) = 1

(***************************************************************************)
(* C17: in a play_game session started with at least 1 move, moves         *)
(* remaining is never negative, and it is never 0 while the loop is still  *)
(* running: attempt_move is not called with 0 moves, the session ends when *)
(* the count reaches exactly 0.                                            *)
(***************************************************************************)
C17_BudgetNotOverdrawn ==
    /\ moves_remaining >= 0
    /\ moves_remaining = 0 => session # "playing"

\* a successful move has brought the count to exactly 0 and ended the session
C17_Witness ==
    /\ moves_remaining = 0
    /\ ret = "True"
    /\ session = "lost"
    /\ ~has_won(grid)

(***************************************************************************)
(* C18: the play_game loop ends only by a win, by the moves being          *)
(* exhausted after a successful move, or by the quit command; and every    *)
(* successful move takes 1 from the budget of the moves remaining plus the *)
(* moves deltas of the potions still in the maze, which never goes below   *)
(* 0, so the successful moves are at most the initial moves plus the moves *)
(* deltas of the initial potions.                                          *)
(***************************************************************************)
C18_Budget(m, e) ==
    m + 5 * Cardinality({p \in DOMAIN e : e[p].class = "MovePotion"})
      + 2 * Cardinality({p \in DOMAIN e : e[p].class = "FancyPotion"})

C18_SessionStep ==
    /\ session' \in {"playing", "won", "lost", "quit"}
    /\ session' = "won" => has_won(grid')
    /\ session' = "lost" => (ret' = "True" /\ moves_remaining' = 0)
    /\ (session' # "quit" /\ ret' = "True")
       => C18_Budget(moves_remaining', entities') = C18_Budget(moves_remaining, entities) - 1
    /\ C18_Budget(moves_remaining', entities') >= 0

C18_SessionEnds == [][C18_SessionStep]_vars

====
